---------------------------- MODULE Spec2Model ----------------------------
(***************************************************************************)
(* Model of the upload/delete pipeline of bomb-cdn (src/src/main.rs).      *)
(*                                                                         *)
(* Strings are sequences of tokens: the separator "/" is one token, and a  *)
(* path segment ("a", "..", "uploads", ...) is one token.  A filesystem    *)
(* location is the sequence of names leading to it from the working        *)
(* directory of the process, <<>>.  File contents are run-length encoded:  *)
(* <<[b |-> "x", n |-> 3]>> is three bytes "x".                            *)
(***************************************************************************)
EXTENDS Integers, Sequences, FiniteSets, TLC

(***************************************************************************)
(* Program constants                                                       *)
(***************************************************************************)
MAX_FILE_SIZE == 30000000

CDN_URL == <<"https://cdn.tomthebomb.dev">>

\* the literal "./uploads" of the format strings and of trim_start_matches
UploadsPrefix == <<".", "/", "uploads">>

\* the location of ./uploads
UploadRoot == <<"uploads">>

(***************************************************************************)
(* Bounds                                                                  *)
(***************************************************************************)
\* requests served in one behaviour
MaxRequests == 3

\* requests that can be in flight together
Slots == {"r1", "r2"}

(***************************************************************************)
(* Inputs                                                                  *)
(***************************************************************************)
\* Option<T>: <<>> is None, <<v>> is Some(v)
None == <<>>
Some(v) == <<v>>

\* the secret of the environment and the bearer tokens a client sends
SecretValue == "s3cret"
Tokens == {"s3cret", "wrong"}

\* the `directory` query parameter
Directories ==
    { None,
      Some(<<"/", "a", "/">>),
      Some(<<"a", "/", "b">>),
      Some(<<"..">>) }

\* the declared filename of the first multipart field
DeclaredNames == { None, Some(<<"a">>) }

\* what generate_filename can return
GeneratedNames == { <<"g">> }

\* the *path parameter of DELETE /delete/*path
DeletePaths ==
    { <<"g">>,
      <<"/", "a", "/">>,
      <<"..", "/", "static", "/", "notfound.html">> }

\* the payload of the field: n bytes, all of them b
Bodies ==
    { [b |-> "x", n |-> 1],
      [b |-> "y", n |-> MAX_FILE_SIZE],
      [b |-> "y", n |-> MAX_FILE_SIZE + 1] }
NoBody == [b |-> "", n |-> 0]

VARIABLES
    secret,     \* env::var("auth"): None or Some(token)
    dirs,       \* the directories of the filesystem (locations)
    files,      \* the regular files: location -> content
    req,        \* per slot: the request being served and its response
    served      \* number of requests accepted so far

vars == <<secret, dirs, files, req, served>>

(***************************************************************************)
(* String functions                                                        *)
(***************************************************************************)
RECURSIVE TrimStart(_, _)
TrimStart(s, c) ==
    IF s # <<>> /\ Head(s) = c THEN TrimStart(Tail(s), c) ELSE s

RECURSIVE TrimEnd(_, _)
TrimEnd(s, c) ==
    IF s # <<>> /\ s[Len(s)] = c THEN TrimEnd(SubSeq(s, 1, Len(s) - 1), c) ELSE s

\* str::trim_matches('/')
TrimMatches(s) == TrimEnd(TrimStart(s, "/"), "/")

IsPrefix(p, s) == Len(p) <= Len(s) /\ SubSeq(s, 1, Len(p)) = p

IsSuffix(p, s) == Len(p) <= Len(s) /\ SubSeq(s, Len(s) - Len(p) + 1, Len(s)) = p

\* str::trim_start_matches(pat): strips the prefix as often as it repeats
RECURSIVE TrimStartMatches(_, _)
TrimStartMatches(s, pat) ==
    IF pat # <<>> /\ IsPrefix(pat, s)
    THEN TrimStartMatches(SubSeq(s, Len(pat) + 1, Len(s)), pat)
    ELSE s

\* format!("./uploads/{}/{}", directory, filename)
UploadPathString(directory, filename) ==
    UploadsPrefix \o <<"/">> \o directory \o <<"/">> \o filename

\* format!("./uploads/{}", path)
DeletePathString(path) == UploadsPrefix \o <<"/">> \o path

\* Path::components: the segments between separators
Components(s) == SelectSeq(s, LAMBDA t : t # "/")

Front(s) == SubSeq(s, 1, Len(s) - 1)
Last(s) == s[Len(s)]


(***************************************************************************)
(* The filesystem: path lookup, mkdir, create_dir_all, File::create,       *)
(* write_all, remove_file.  D is the set of directories, F the files.      *)
(***************************************************************************)
\* one component of a lookup; ".." at the top stays at the top
StepInto(cur, c) ==
    IF c = "." THEN cur
    ELSE IF c = ".." THEN (IF cur = <<>> THEN <<>> ELSE Front(cur))
    ELSE Append(cur, c)

\* follows comps from cur; every component is looked up in a directory
RECURSIVE Walk(_, _, _, _)
Walk(comps, cur, D, F) ==
    IF comps = <<>> THEN [err |-> "Ok", at |-> cur]
    ELSE IF cur \notin D
         THEN [err |-> IF cur \in DOMAIN F THEN "NotADirectory" ELSE "NotFound",
               at |-> cur]
         ELSE Walk(Tail(comps), StepInto(cur, Head(comps)), D, F)

\* the directory that holds the last component of comps
WalkParent(comps, D, F) == Walk(Append(Front(comps), "."), <<>>, D, F)

\* Path::is_dir
IsDir(comps, D, F) ==
    LET w == Walk(comps, <<>>, D, F) IN w.err = "Ok" /\ w.at \in D

\* mkdir(2)
Mkdir(comps, D, F) ==
    LET w == WalkParent(comps, D, F)
        target == StepInto(w.at, Last(comps))
    IN  IF w.err # "Ok" THEN [err |-> w.err, dirs |-> D, made |-> {}]
        ELSE IF target \in D \/ target \in DOMAIN F
             THEN [err |-> "AlreadyExists", dirs |-> D, made |-> {}]
             ELSE [err |-> "Ok", dirs |-> D \cup {target}, made |-> {target}]

\* std::fs::create_dir in its place: one mkdir, no parents
CreateDirOnly(comps, D, F) == Mkdir(comps, D, F)

\* std::fs::create_dir_all (DirBuilder::create_dir_all, recursive)
RECURSIVE CreateDirAll(_, _, _)
CreateDirAll(comps, D, F) ==
    IF comps = <<>> THEN [err |-> "Ok", dirs |-> D, made |-> {}]
    ELSE
    LET m == Mkdir(comps, D, F) IN
    IF m.err = "Ok" THEN m
    ELSE IF m.err # "NotFound"
         THEN (IF IsDir(comps, D, F)
               THEN [err |-> "Ok", dirs |-> D, made |-> {}]
               ELSE m)
    ELSE
    LET p == CreateDirAll(Front(comps), D, F) IN
    IF p.err # "Ok" THEN p
    ELSE
    LET m2 == Mkdir(comps, p.dirs, F) IN
    IF m2.err = "Ok" \/ ~IsDir(comps, p.dirs, F)
    THEN [err |-> m2.err, dirs |-> m2.dirs, made |-> p.made \cup m2.made]
    ELSE [err |-> "Ok", dirs |-> p.dirs, made |-> p.made]

\* a File::create that does not truncate: open(O_WRONLY | O_CREAT)
OpenNoTruncate(comps, D, F) ==
    LET w == WalkParent(comps, D, F)
        target == StepInto(w.at, Last(comps))
    IN  IF w.err # "Ok" THEN [err |-> w.err, files |-> F, at |-> w.at]
        ELSE IF target \in D THEN [err |-> "IsADirectory", files |-> F, at |-> target]
        ELSE [err |-> "Ok",
              files |-> [q \in DOMAIN F \cup {target} |->
                            IF q \in DOMAIN F THEN F[q] ELSE <<>>],
              at |-> target]

\* File::create: open(O_WRONLY | O_CREAT | O_TRUNC)
OpenCreate(comps, D, F) ==
    LET w == WalkParent(comps, D, F)
        target == StepInto(w.at, Last(comps))
    IN  IF w.err # "Ok" THEN [err |-> w.err, files |-> F, at |-> w.at]
        ELSE IF target \in D THEN [err |-> "IsADirectory", files |-> F, at |-> target]
        ELSE [err |-> "Ok",
              files |-> [q \in DOMAIN F \cup {target} |->
                            IF q = target THEN <<>> ELSE F[q]],
              at |-> target]

\* the content without its first k bytes
RECURSIVE DropBytes(_, _)
DropBytes(content, k) ==
    IF content = <<>> \/ k = 0 THEN content
    ELSE IF Head(content).n <= k
         THEN DropBytes(Tail(content), k - Head(content).n)
         ELSE <<[b |-> Head(content).b, n |-> Head(content).n - k]>> \o Tail(content)

\* run-length normal form: no empty run, no two adjacent runs of one byte
RECURSIVE Runs(_)
Runs(content) ==
    IF content = <<>> THEN <<>>
    ELSE IF Head(content).n = 0 THEN Runs(Tail(content))
    ELSE LET rest == Runs(Tail(content)) IN
         IF rest # <<>> /\ Head(rest).b = Head(content).b
         THEN <<[b |-> Head(content).b, n |-> Head(content).n + Head(rest).n]>>
              \o Tail(rest)
         ELSE <<Head(content)>> \o rest

\* the bytes of a payload
Bytes(body) == Runs(<<body>>)

\* write_all from offset 0 of a file that holds content
WriteAt0(content, body) == Runs(<<body>> \o DropBytes(content, body.n))

\* unlink(2), as std::fs::remove_file calls it
RemoveFile(comps, D, F) ==
    LET w == WalkParent(comps, D, F)
        target == StepInto(w.at, Last(comps))
    IN  IF w.err # "Ok" THEN [err |-> w.err, files |-> F, at |-> w.at]
        ELSE IF target \in D THEN [err |-> "IsADirectory", files |-> F, at |-> target]
        ELSE IF target \notin DOMAIN F THEN [err |-> "NotFound", files |-> F, at |-> target]
        ELSE [err |-> "Ok",
              files |-> [q \in DOMAIN F \ {target} |-> F[q]],
              at |-> target]

(***************************************************************************)
(* Requests                                                                *)
(***************************************************************************)
\* a slot that serves no request
IdleReq ==
    [kind |-> "none", pc |-> "Idle", auth |-> None, directory |-> None,
     filename |-> <<>>, path |-> <<>>, body |-> NoBody,
     handle |-> "none", loc |-> <<>>, touched |-> {},
     status |-> 0, msg |-> "",
     full_url |-> <<>>, path_string |-> <<>>]

\* the handler returns (status, message).into_response()
Respond(q, status, msg) ==
    [q EXCEPT !.pc = "Done", !.status = status, !.msg = msg]

InFlight(q) == q.pc \notin {"Idle", "Done"}

\* what this request did to the filesystem, and where
Touch(q, op, at) == [q EXCEPT !.touched = @ \cup {[op |-> op, at |-> at]}]

\* Option::unwrap_or_else
UnwrapOr(o, default) == IF o = None THEN default ELSE o[1]

\* the working directory once main has made ./uploads: it also holds ./static
InitDirs == {<<>>, UploadRoot, <<"static">>}
InitFiles == (<<"static", "notfound.html">> :> <<[b |-> "h", n |-> 1]>>)

Init ==
    /\ secret \in {None, Some(SecretValue)}
    /\ dirs = InitDirs
    /\ files = InitFiles
    /\ req = [r \in Slots |-> IdleReq]
    /\ served = 0

\* A request arrives and its extractors run.  TypedHeader<Authorization<Bearer>>
\* rejects a request without a bearer token before the handler is called.
Begin(r) ==
    /\ ~InFlight(req[r])
    /\ served < MaxRequests
    /\ served' = served + 1
    /\ \E kind \in {"upload", "delete"}, auth \in {None} \cup {Some(t) : t \in Tokens} :
          LET q == [IdleReq EXCEPT !.kind = kind, !.auth = auth] IN
          req' = [req EXCEPT ![r] =
                    IF auth = None
                    THEN Respond(q, 400, "Header of type authorization was missing")
                    ELSE [q EXCEPT !.pc = "Authorizing"]]
    /\ UNCHANGED <<secret, dirs, files>>

\* env::var("auth").unwrap_or_default() in its place: no 500 for a missing secret
AuthorizeDefaultSecret(q) ==
    IF q.auth[1] # UnwrapOr(secret, "")
    THEN Respond(q, 401, "Incorrect authorization token")
    ELSE q

\* the authorization both handlers start with
Authorize(q) ==
    IF secret = None
    THEN Respond(q, 500, "Failed to get auth token from env")
    ELSE IF q.auth[1] # secret[1]
         THEN Respond(q, 401, "Incorrect authorization token")
         ELSE q

(***************************************************************************)
(* post_upload                                                             *)
(***************************************************************************)
UploadAuthorize(r) ==
    /\ req[r].kind = "upload" /\ req[r].pc = "Authorizing"
    /\ LET q == Authorize(req[r]) IN
       req' = [req EXCEPT ![r] =
                 IF q.pc = "Done" THEN q ELSE [q EXCEPT !.pc = "FieldReading"]]
    /\ UNCHANGED <<secret, dirs, files, served>>

\* multipart.next_field(), then the filename of the field
NextField(r) ==
    /\ req[r].pc = "FieldReading"
    /\ \E field \in {None} \cup {Some(d) : d \in DeclaredNames}, g \in GeneratedNames :
          req' = [req EXCEPT ![r] =
                    IF field = None
                    THEN Respond(@, 400, "Missing image field in the multipart form")
                    ELSE [@ EXCEPT !.filename = UnwrapOr(field[1], g),
                                   !.pc = "PathResolving"]]
    /\ UNCHANGED <<secret, dirs, files, served>>

ResolvePath(r) ==
    /\ req[r].pc = "PathResolving"
    /\ \E directory \in Directories :
          req' = [req EXCEPT ![r] =
                    [@ EXCEPT !.directory = directory,
                              !.path = UploadPathString(
                                           TrimMatches(UnwrapOr(directory, <<>>)),
                                           req[r].filename),
                              !.pc = "DirCreating"]]
    /\ UNCHANGED <<secret, dirs, files, served>>

\* fs::create_dir_all(parent)
CreateDir(r) ==
    /\ req[r].pc = "DirCreating"
    /\ LET parent == Front(Components(req[r].path))
           c == CreateDirAll(parent, dirs, files)
           q == [req[r] EXCEPT !.touched =
                    @ \cup {[op |-> "mkdir", at |-> d] : d \in c.made}]
       IN  /\ dirs' = c.dirs
           /\ req' = [req EXCEPT ![r] =
                        IF c.err \notin {"Ok", "AlreadyExists"}
                        THEN Respond(q, 500, "Creating the directory failed")
                        ELSE [q EXCEPT !.pc = "BodyReading"]]
    /\ UNCHANGED <<secret, files, served>>

\* a size check that is off by one: bytes.len() >= MAX_FILE_SIZE
TooLargeOffByOne(bytes) == bytes.n >= MAX_FILE_SIZE

\* bytes.len() > MAX_FILE_SIZE
TooLarge(bytes) == bytes.n > MAX_FILE_SIZE

\* field.bytes(), then the size check
ReadBody(r) ==
    /\ req[r].pc = "BodyReading"
    /\ \E bytes \in {None} \cup {Some(b) : b \in Bodies} :
          req' = [req EXCEPT ![r] =
                    IF bytes = None
                    THEN Respond(@, 400, "Improper bytes sent")
                    ELSE IF TooLarge(bytes[1])
                         THEN Respond([@ EXCEPT !.body = bytes[1]], 413,
                                      "uploaded files cannot exceed the limit of 30000000 bytes")
                         ELSE [@ EXCEPT !.body = bytes[1], !.pc = "Writing"]]
    /\ UNCHANGED <<secret, dirs, files, served>>

\* the result of the write ignored: the handler goes on to the 200 response
WriteOpenIgnoreError(r) ==
    /\ req[r].pc = "Writing"
    /\ LET o == OpenCreate(Components(req[r].path), dirs, files) IN
       /\ files' = o.files
       /\ req' = [req EXCEPT ![r] =
                    IF o.err # "Ok"
                    THEN Respond(@, 200, "")
                    ELSE [Touch(@, "open", o.at) EXCEPT
                              !.handle = "open", !.loc = o.at, !.pc = "WritingData"]]
    /\ UNCHANGED <<secret, dirs, served>>

\* fs::write, first half: File::create(path)
WriteOpen(r) ==
    /\ req[r].pc = "Writing"
    /\ LET o == OpenCreate(Components(req[r].path), dirs, files) IN
       /\ files' = o.files
       /\ req' = [req EXCEPT ![r] =
                    IF o.err # "Ok"
                    THEN Respond(@, 500, "Writing to file system failed")
                    ELSE [Touch(@, "open", o.at) EXCEPT
                              !.handle = "open", !.loc = o.at, !.pc = "WritingData"]]
    /\ UNCHANGED <<secret, dirs, served>>

\* the response of a successful upload
UploadResponse(q) ==
    LET path_string == TrimStartMatches(q.path, UploadsPrefix) IN
    [Respond(q, 200, "") EXCEPT
        !.full_url = CDN_URL \o path_string,
        !.path_string = path_string]

\* fs::write, second half: write_all(bytes) through the open file, and the response
WriteData(r) ==
    /\ req[r].pc = "WritingData"
    /\ files' = IF req[r].handle = "open"
                THEN [files EXCEPT ![req[r].loc] = WriteAt0(@, req[r].body)]
                ELSE files
    /\ req' = [req EXCEPT ![r] =
                 UploadResponse([Touch(@, "write", @.loc) EXCEPT !.handle = "none"])]
    /\ UNCHANGED <<secret, dirs, served>>

(***************************************************************************)
(* delete_file                                                             *)
(***************************************************************************)
DeleteAuthorize(r) ==
    /\ req[r].kind = "delete" /\ req[r].pc = "Authorizing"
    /\ \E path \in DeletePaths :
          LET q == Authorize(req[r]) IN
          req' = [req EXCEPT ![r] =
                    IF q.pc = "Done" THEN q
                    ELSE [q EXCEPT !.path = DeletePathString(TrimMatches(path)),
                                   !.pc = "Removing"]]
    /\ UNCHANGED <<secret, dirs, files, served>>

\* every error of remove_file answered as NotFound
DeleteResponseAllNotFound(q, err) ==
    IF err = "Ok" THEN Respond(q, 200, "File successfully deleted")
    ELSE Respond(q, 404, "The requested file was not found on the CDN")

\* a match without the NotFound arm
DeleteResponseNoNotFound(q, err) ==
    IF err = "Ok" THEN Respond(q, 200, "File successfully deleted")
    ELSE Respond(q, 500, "Something went wrong when deleting the file")

\* the response to the result of fs::remove_file
DeleteResponse(q, err) ==
    IF err = "Ok" THEN Respond(q, 200, "File successfully deleted")
    ELSE IF err = "NotFound"
         THEN Respond(q, 404, "The requested file was not found on the CDN")
         ELSE Respond(q, 500, "Something went wrong when deleting the file")

\* fs::remove_file(path); a file that is open elsewhere lives on without a name
DeleteRemove(r) ==
    /\ req[r].pc = "Removing"
    /\ LET rm == RemoveFile(Components(req[r].path), dirs, files) IN
       /\ files' = rm.files
       /\ req' = [s \in Slots |->
                    IF s = r
                    THEN DeleteResponse(
                            IF rm.err = "Ok"
                            THEN [Touch(req[r], "unlink", rm.at) EXCEPT !.loc = rm.at]
                            ELSE req[r],
                            rm.err)
                    ELSE IF rm.err = "Ok" /\ req[s].handle = "open" /\ req[s].loc = rm.at
                         THEN [req[s] EXCEPT !.handle = "orphan"]
                         ELSE req[s]]
    /\ UNCHANGED <<secret, dirs, served>>

(***************************************************************************)
(* Specifications                                                          *)
(***************************************************************************)
Step(r) ==
    \/ UploadAuthorize(r)
    \/ NextField(r)
    \/ ResolvePath(r)
    \/ CreateDir(r)
    \/ ReadBody(r)
    \/ WriteOpen(r)
    \/ WriteData(r)
    \/ DeleteAuthorize(r)
    \/ DeleteRemove(r)

\* requests are served concurrently, one task each
Next == \E r \in Slots : Begin(r) \/ Step(r)

Spec == Init /\ [][Next]_vars

\* a request arrives only when no other is being served
BeginAlone(r) ==
    /\ \A s \in Slots : ~InFlight(req[s])
    /\ Begin(r)

NextAlone == \E r \in Slots : BeginAlone(r) \/ Step(r)

SpecAlone == Init /\ [][NextAlone]_vars

(***************************************************************************)
(* Vocabulary of the properties                                            *)
(***************************************************************************)
Done(q) == q.pc = "Done"

\* the request carries a bearer token and it is the configured secret
Authorized(q) == secret # None /\ q.auth = secret

\* a location strictly below ./uploads
InsideRoot(at) == Len(at) > Len(UploadRoot) /\ IsPrefix(UploadRoot, at)

\* the operations a request did on the filesystem
Ops(q) == {t.op : t \in q.touched}

(***************************************************************************)
(* C1.  A request to post_upload or delete_file whose bearer token is      *)
(* incorrect, or missing, is answered 401 and does nothing to the          *)
(* filesystem.                                                             *)
(***************************************************************************)
C1_BadTokenIs401 ==
    \A r \in Slots :
        LET q == req[r] IN
        (Done(q) /\ (q.auth = None \/ (secret # None /\ q.auth # secret)))
            => (q.status = 401 /\ q.touched = {})

(***************************************************************************)
(* C2.  Whatever the directory, the filename and the delete path are,      *)
(* everything an upload creates or writes and everything a delete removes  *)
(* lies inside the upload root ./uploads.                                  *)
(***************************************************************************)
C2_RootNeverEscaped ==
    \A r \in Slots : \A t \in req[r].touched : InsideRoot(t.at)

(***************************************************************************)
(* C3.  When an upload answers 200, `path` is a suffix of `full_url`       *)
(* (full_url is the public base URL followed by path), and the file at     *)
(* upload root / trimmed directory / filename holds exactly the uploaded   *)
(* bytes, whatever it held before.  Checked for requests served one at a   *)
(* time (SpecAlone).                                                       *)
(***************************************************************************)
\* upload root / trimmed directory / filename, looked up in dirs D and files F
ExpectedLocation(q, D, F) ==
    Walk(UploadRoot \o Components(TrimMatches(UnwrapOr(q.directory, <<>>)))
                    \o Components(q.filename),
         <<>>, D, F).at

UploadSucceeds(r) ==
    /\ req[r].kind = "upload" /\ ~Done(req[r])
    /\ Done(req'[r]) /\ req'[r].status = 200

C4_TooLargeNotWritten ==
    [][\A r \in Slots :
          LET q == req'[r] IN
          /\ (q.kind = "upload" /\ q.body # NoBody /\ q.body.n > MAX_FILE_SIZE)
                => /\ Authorized(q)
                   /\ Done(q) /\ q.status = 413
                   /\ Ops(q) \subseteq {"mkdir"}
                   /\ (~Done(req[r]) => files' = files)
          /\ (q.kind = "upload" /\ q.status = 413) => q.body.n > MAX_FILE_SIZE
          /\ (q.kind = "upload" /\ q.body # NoBody /\ q.body.n <= MAX_FILE_SIZE)
                => /\ q.status # 413
                   /\ (req[r].pc = "BodyReading" => q.pc = "Writing")]_vars

\* one upload of MAX_FILE_SIZE + 1 bytes refused after its directory was made,
\* one of exactly MAX_FILE_SIZE bytes stored
C4_Witness ==
    \E r, s \in Slots :
        /\ Done(req[r]) /\ req[r].status = 413
        /\ req[r].body.n = MAX_FILE_SIZE + 1
        /\ "mkdir" \in Ops(req[r])
        /\ Walk(Components(req[r].path), <<>>, dirs, files).at \notin DOMAIN files
        /\ Done(req[s]) /\ req[s].status = 200
        /\ req[s].body.n = MAX_FILE_SIZE

(***************************************************************************)
(* C5.  When an authorized delete_file finds a regular file at its path,   *)
(* it answers 200 and the file no longer exists; deleting the same path    *)
(* again, with nothing done to the filesystem in between, answers 404.     *)
(***************************************************************************)
DeleteAnswers(r) ==
    /\ req[r].pc = "Removing" /\ Done(req'[r])

\* the path names a regular file
IsRegularFile(path, D, F) ==
    LET w == Walk(Components(path), <<>>, D, F) IN
    w.err = "Ok" /\ w.at \in DOMAIN F

\* the status delete_file answers for this path on the filesystem D, F
DeleteStatus(q, D, F) ==
    DeleteResponse(q, RemoveFile(Components(q.path), D, F).err).status

C5_DeleteTwice ==
    [][\A r \in Slots :
          (DeleteAnswers(r) /\ IsRegularFile(req[r].path, dirs, files))
              => /\ Authorized(req[r])
                 /\ req'[r].status = 200
                 /\ ~IsRegularFile(req[r].path, dirs', files')
                 /\ DeleteStatus(req[r], dirs', files') = 404]_vars

\* two deletes of one path have been answered, one 200 and the other 404
C5_Witness ==
    \E r, s \in Slots :
        /\ Done(req[r]) /\ req[r].kind = "delete" /\ req[r].status = 200
        /\ Done(req[s]) /\ req[s].kind = "delete" /\ req[s].status = 404
        /\ req[r].path = req[s].path
        /\ InsideRoot(req[r].loc)
        /\ req[r].loc \notin DOMAIN files

(***************************************************************************)
(* C6.  The directory-creation step of post_upload always succeeds: when   *)
(* the directory named by `directory` does not exist, every missing parent *)
(* is created and the upload goes on to answer 200; when it exists, the    *)
(* step succeeds and creates nothing.  No step removes a directory.        *)
(* (The claim as stated.)                                                  *)
(***************************************************************************)
\* the directory the target file is to be in
ParentOf(q) == Front(Components(q.path))

\* some component of comps is a regular file
Blocked(comps, D, F) ==
    \E k \in 1..Len(comps) : Walk(SubSeq(comps, 1, k), <<>>, D, F).at \in DOMAIN F

DirectoryStep(r, unblocked) ==
    (req[r].pc = "DirCreating" /\ req'[r].pc # req[r].pc
        /\ (unblocked => ~Blocked(ParentOf(req[r]), dirs, files)))
        => /\ req'[r].pc = "BodyReading"
           /\ IsDir(ParentOf(req[r]), dirs', files')
           /\ (IsDir(ParentOf(req[r]), dirs, files) => dirs' = dirs)

\* an upload that made its directory opens its file, and then answers 200
WriteAfterMkdir(r) ==
    /\ (req[r].pc = "Writing" /\ req'[r].pc # req[r].pc /\ "mkdir" \in Ops(req[r]))
          => req'[r].pc = "WritingData"
    /\ (req[r].pc = "WritingData" /\ req'[r].pc # req[r].pc)
          => (Done(req'[r]) /\ req'[r].status = 200)

C7_SecretMissing ==
    secret = None =>
        /\ dirs = InitDirs /\ files = InitFiles
        /\ \A r \in Slots :
              /\ req[r].pc \in {"Idle", "Authorizing", "Done"}
              /\ req[r].touched = {}
              /\ (Done(req[r]) /\ req[r].auth # None)
                    => /\ req[r].status = 500
                       /\ req[r].msg = "Failed to get auth token from env"

\* the server has served an upload with the right token and a delete with a
\* wrong one, both answered 500
C7_Witness ==
    /\ secret = None
    /\ \E r, s \in Slots :
          /\ Done(req[r]) /\ req[r].kind = "upload"
          /\ req[r].auth = Some(SecretValue) /\ req[r].status = 500
          /\ Done(req[s]) /\ req[s].kind = "delete"
          /\ req[s].auth = Some("wrong") /\ req[s].status = 500

(***************************************************************************)
(* C8.  Once two uploads to the same location have both answered 200 and   *)
(* nothing is in flight, the file holds the complete bytes of one of them, *)
(* never a mixture.                                                        *)
(***************************************************************************)
C8_LastWriterWins ==
    \A r, s \in Slots :
        (/\ r # s
         /\ \A t \in Slots : ~InFlight(req[t])
         /\ req[r].kind = "upload" /\ req[r].status = 200
         /\ req[s].kind = "upload" /\ req[s].status = 200
         /\ req[r].loc = req[s].loc)
            => /\ req[r].loc \in DOMAIN files
               /\ files[req[r].loc] \in {Bytes(req[r].body), Bytes(req[s].body)}

(***************************************************************************)
(* C9.  A post_upload request takes its steps in the order authorization,  *)
(* first-field read, path resolution, directory creation, body read and    *)
(* size check, write.  Each step either hands over to the next or ends the *)
(* request with the response of that step; a request that has ended does   *)
(* nothing more.  A missing field is answered 400 before the request has   *)
(* touched the filesystem; directories are made only by the directory      *)
(* step and files are changed only by the write (or by a delete).          *)
(***************************************************************************)
Failed(q, status, msg) == Done(q) /\ q.status = status /\ q.msg = msg

\* what one step of an upload may lead to
UploadStepOk(q, n) ==
    CASE q.pc = "Authorizing" ->
            /\ \/ n.pc = "FieldReading"
               \/ Failed(n, 401, "Incorrect authorization token")
               \/ Failed(n, 500, "Failed to get auth token from env")
            /\ n.touched = {}
      [] q.pc = "FieldReading" ->
            /\ \/ n.pc = "PathResolving"
               \/ Failed(n, 400, "Missing image field in the multipart form")
            /\ n.touched = {}
      [] q.pc = "PathResolving" ->
            /\ n.pc = "DirCreating"
            /\ n.touched = {}
      [] q.pc = "DirCreating" ->
            /\ \/ n.pc = "BodyReading"
               \/ Failed(n, 500, "Creating the directory failed")
            /\ Ops(n) \subseteq {"mkdir"}
      [] q.pc = "BodyReading" ->
            /\ \/ n.pc = "Writing"
               \/ Failed(n, 400, "Improper bytes sent")
               \/ (Done(n) /\ n.status = 413)
            /\ n.touched = q.touched
      [] q.pc = "Writing" ->
            \/ n.pc = "WritingData" /\ Ops(n) = Ops(q) \cup {"open"}
            \/ /\ Failed(n, 500, "Writing to file system failed")
               /\ n.touched = q.touched
      [] q.pc = "WritingData" ->
            /\ Done(n) /\ n.status = 200
            /\ Ops(n) = Ops(q) \cup {"write"}
      [] OTHER -> FALSE

\* the slot takes a new request
Arrives(n) == n.touched = {} /\ n.pc \in {"Authorizing", "Done"} /\ n.path = <<>>

C9_UploadStateMachine ==
    [][/\ \A r \in Slots :
             (req[r].kind = "upload" /\ req'[r].pc # req[r].pc)
                 => IF Done(req[r]) THEN Arrives(req'[r])
                    ELSE UploadStepOk(req[r], req'[r])
       /\ \A r \in Slots :
             (Done(req[r]) /\ ~Arrives(req'[r])) => req'[r] = req[r]
       /\ dirs' # dirs
             => \E r \in Slots : req[r].pc = "DirCreating" /\ req'[r].pc # req[r].pc
       /\ files' # files
             => \E r \in Slots : /\ req[r].pc \in {"Writing", "WritingData", "Removing"}
                                 /\ req'[r].pc # req[r].pc]_vars

\* one upload ended at the field read with nothing touched, another at the
\* directory step with no file opened
C9_Witness ==
    \E r, s \in Slots :
        /\ req[r].kind = "upload"
        /\ Failed(req[r], 400, "Missing image field in the multipart form")
        /\ req[r].touched = {}
        /\ req[s].kind = "upload"
        /\ Failed(req[s], 500, "Creating the directory failed")
        /\ Ops(req[s]) \cap {"open", "write"} = {}

(***************************************************************************)
(* C10.  An authorized delete_file answers 404 and changes nothing when    *)
(* nothing exists at its path; answers 500 "Something went wrong when      *)
(* deleting the file" and changes nothing when the path is a directory or  *)
(* the removal fails otherwise; answers 200 only when a regular file was   *)
(* at exactly that path, and then removes that file and no other.  It      *)
(* never removes a directory.                                              *)
(***************************************************************************)
C10_DeleteOnlyFiles ==
    [][\A r \in Slots :
          DeleteAnswers(r) =>
              LET w == Walk(Components(req[r].path), <<>>, dirs, files)
                  q == req'[r]
                  missing == \/ w.err = "NotFound"
                             \/ (w.err = "Ok" /\ w.at \notin dirs /\ w.at \notin DOMAIN files)
                  regular == w.err = "Ok" /\ w.at \in DOMAIN files
              IN  /\ Authorized(q)
                  /\ dirs' = dirs
                  /\ missing => (q.status = 404 /\ files' = files)
                  /\ (~missing /\ ~regular)
                        => /\ Failed(q, 500, "Something went wrong when deleting the file")
                           /\ files' = files
                  /\ q.status = 200
                        => /\ regular
                           /\ DOMAIN files' = DOMAIN files \ {w.at}
                           /\ \A f \in DOMAIN files' : files'[f] = files[f]
                  /\ q.status \in {200, 404, 500}]_vars

\* a delete of the directory ./uploads/a was answered 500; the directory and
\* what is in it are still there
C10_Witness ==
    \E r \in Slots :
        /\ req[r].kind = "delete"
        /\ Failed(req[r], 500, "Something went wrong when deleting the file")
        /\ req[r].path = DeletePathString(<<"a">>)
        /\ <<"uploads", "a">> \in dirs
        /\ \E f \in DOMAIN files : IsPrefix(<<"uploads", "a">>, f)

=============================================================================
